---- MODULE Spec2Model ----
(***************************************************************************)
(* The allocation file-streaming endpoint of client/fs_endpoint.go:        *)
(* the file-stream session (FileSystem.stream), the log-stream session     *)
(* (FileSystem.logs), the log driver (logsImpl), the file tailer           *)
(* (streamFile), blockUntilNextLog, findClosest and parseFramerErr.        *)
(* The stream framer and the allocation directory live outside the two     *)
(* source files; they are modelled by their interface.                     *)
(***************************************************************************)
EXTENDS Integers, Sequences, FiniteSets, TLC

\* ------------------------------------------------------------------ bounds
\* the size of the read buffer and of a full frame (64 KiB in the program)
streamFrameSize == 2
\* the capacity of the frame channel (32 in the program)
streamFramesBuffer == 1
\* the largest initial size of a file or log segment
MaxFileLen == 3
\* the largest requested offset and limit
MaxOffset == 1
MaxLimit == 1
\* the largest log segment index present initially
MaxIdx == 1
\* how many events may happen that the session does not cause: changes to the
\* files, the peer closing, the connection breaking, a filesystem call
\* failing, the heartbeat timer firing
MaxEvents == 1

\* math.MaxInt64 stands above every index of the model; no arithmetic is
\* done on it
MaxInt64 == 2147483647

\* ------------------------------------------------------------------ helpers
Min(a, b) == IF a < b THEN a ELSE b
Max(a, b) == IF a > b THEN a ELSE b

\* the bytes n+1 .. of s
Drop(s, n) == SubSeq(s, n + 1, Len(s))
Take(s, n) == SubSeq(s, 1, Min(n, Len(s)))

RECURSIVE Flatten(_)
Flatten(ss) == IF ss = <<>> THEN <<>> ELSE Head(ss) \o Flatten(Tail(ss))

\* ------------------------------------------------------------------ errors
\* An error value: its identity (code), whether its text contains "closed",
\* and whether logsImpl wrapped it with fmt.Errorf.
Err(code, closed) == [code |-> code, closed |-> closed, wrapped |-> FALSE]
Nil == Err("nil", FALSE)
EOF == Err("EOF", FALSE)
ErrClosedPipe == Err("ErrClosedPipe", TRUE)
EPIPE == Err("EPIPE", FALSE)
ECONNRESET == Err("ECONNRESET", FALSE)
ErrForciblyClosed == Err("forcibly closed", TRUE)
ErrFramerClosed == Err("ErrFramerClosed", TRUE)
ErrFramerOther == Err("framer not running", FALSE)
ENOENT == Err("ENOENT", FALSE)
EIO == Err("EIO", FALSE)
ErrNoLogEntry == Err("log entry not found", FALSE)

\* the errors a Send on a framer that has been told to exit may return: the
\* framer's own, and the transport errors parseFramerErr looks for
FramerErrs == {ErrClosedPipe, EPIPE, ECONNRESET, ErrForciblyClosed,
               ErrFramerClosed, ErrFramerOther}

parseFramerErr(err) ==
    IF err = Nil THEN Nil
    ELSE IF err.code = "ErrClosedPipe" THEN EPIPE
    ELSE IF err.code \in {"EPIPE", "ECONNRESET"} THEN EPIPE
    ELSE IF err.code = "forcibly closed" THEN EPIPE
    ELSE err

\* fmt.Errorf("failed to ...: %v", err): a new error whose text holds err's
Wrap(err) == [code |-> err.code, closed |-> err.closed, wrapped |-> TRUE]

IsNotExist(err) == err.code = "ENOENT" /\ ~err.wrapped

\* handleStreamResultError sends nothing for io.EOF and for a text with "closed"
ErrSuppressed(err) == (err = EOF) \/ err.closed

\* ------------------------------------------------------------------ frames
\* a variant of SendFails under which Send may fail on a running framer
SendFailsAnyTime(f) == TRUE

\* Send returns an error once the framer has been told to exit
SendFails(f) == f.state # "running"

StreamFrame(file, ev, data, off) ==
    [File |-> file, FileEvent |-> ev, Data |-> data, Offset |-> off]

deleteEvent == "file deleted"
truncateEvent == "file truncated"

\* Send on a running framer: the new pending frame (a sequence of at most
\* one frame) and the frames to emit, in order.
FramerSend(f, file, ev, data, off) ==
    LET mergeable == f # <<>> /\ f[1].File = file /\ ev = ""
        flushOld == IF f # <<>> /\ ~mergeable THEN f ELSE <<>>
        all == (IF mergeable THEN f[1].Data ELSE <<>>) \o data
        n == Len(all)
    IN  IF ev # ""
        THEN [f |-> <<>>, emit |-> flushOld \o <<StreamFrame(file, ev, data, off)>>]
        ELSE IF n >= streamFrameSize
        THEN [f |-> IF n > streamFrameSize
                    THEN <<StreamFrame(file, "", Drop(all, streamFrameSize), off)>>
                    ELSE <<>>,
              emit |-> flushOld \o
                       <<StreamFrame(file, "", Take(all, streamFrameSize),
                                     off - (n - streamFrameSize))>>]
        ELSE [f |-> IF n = 0 THEN <<>> ELSE <<StreamFrame(file, "", all, off)>>,
              emit |-> flushOld]

\* ------------------------------------------------------------------ state
Paths == 0 .. (MaxIdx + 1)

VARIABLES
    mode,       \* "stream" or "logs": which session this is
    fc,         \* a findClosest call followed step by step
    nl,         \* a blockUntilNextLog call followed step by step
    req,        \* the decoded request
    fsys,       \* the allocation directory: path -> [exists, data]
    wr,         \* the number of bytes ever written to the directory
    bud,        \* what is left of MaxEvents
    conn,       \* the connection: [peer, closed]
    wire,       \* the frames whose payload was written to the connection, in order
    errRec,     \* the error records handleStreamResultError tried to write
    ctxDone,    \* the session's cancellation scope
    frames,     \* the frame channel
    fr,         \* the framer: [state, f, path, off]
    t,          \* the running streamFile call
    chg,        \* the pending change notifications of the watched path
    eofc,       \* the eofCancelCh of the running streamFile call
    bw,         \* the blockUntilNextLog worker behind eofc
    oldw,       \* nextIndex of blockUntilNextLog workers no one listens to
    lg,         \* logsImpl: its locals and position
    ppc,        \* the producer goroutine of the session
    perr,       \* the error the producer goroutine offers on errCh
    wpc,        \* the peer-closure watcher goroutine
    werr,       \* the error the watcher offers on errCh
    mpc,        \* the session function: serve loop and deferred calls
    dfr,        \* the deferred calls the session function has still to run
    streamErr,  \* the serve loop's streamErr
    hist        \* history: what happened so far, for the properties

vars == <<mode, fc, nl, req, fsys, wr, bud, conn, wire, errRec, ctxDone, frames, fr, t,
          chg, eofc, bw, oldw, lg, ppc, perr, wpc, werr, mpc, dfr, streamErr, hist>>

\* ------------------------------------------------------------------ initial state
\* the content a file of size n has before anything is appended to it
InitData(p, n) == [i \in 1 .. n |-> 10 * p + i]

NoCall ==
    [pc |-> "idle", path |-> 0, offset |-> 0, limit |-> 0, N |-> 0, bufSize |-> 0,
     lastEvent |-> "", changes |-> FALSE, eof |-> FALSE, emit |-> <<>>,
     after |-> "loop", res |-> Nil, from |-> 0, handles |-> <<>>, defers |-> <<>>]

\* a streamFile call that is about to open path at offset
Call(offset, path, limit) ==
    [NoCall EXCEPT !.pc = "open", !.path = path, !.offset = offset,
                   !.limit = limit, !.from = offset]

NoChanges == [Modified |-> FALSE, Deleted |-> FALSE, Truncated |-> FALSE]
NoWorker == [pc |-> "none", nextIndex |-> 0, buf |-> <<>>, closed |-> FALSE]
NoDriver ==
    [pc |-> "none", nextIdx |-> 0, offset |-> 0, idx |-> 0, maxIndex |-> 0,
     exitAfter |-> FALSE, res |-> Nil]
\* no findClosest call is being followed
NoFind ==
    [pc |-> "none", entries |-> {}, desiredIdx |-> 0, desiredOffset |-> 0,
     indexes |-> <<>>, i |-> 0, offset |-> 0, turns |-> 0,
     res |-> [err |-> Nil, idx |-> 0, offset |-> 0]]
\* no blockUntilNextLog call is being followed
NoNextLog ==
    [pc |-> "none", nextIndex |-> 0, next |-> <<>>, closed |-> FALSE, val |-> Nil,
     why |-> "", seen |-> 0, sends |-> 0, listener |-> FALSE, received |-> <<>>]
NoHist ==
    [streamed |-> <<>>, envTouched |-> FALSE, faulted |-> FALSE,
     prodFatal |-> FALSE, peerEOF |-> FALSE, lastRes |-> Nil, epipe |-> FALSE,
     removedAtEOF |-> FALSE, completed |-> {}, breakBy |-> "", sends |-> <<>>,
     truncAt |-> 0, shrunk |-> FALSE, eofLeft |-> <<>>,
     rotLen |-> [p \in Paths |-> -1]]

\* a variant of EofCancel that never hands out a closed channel
EofCancelNil(follow) == "nil"

\* stream, lines 230-236: eofCancelCh is nil when the request follows, a
\* closed channel when it does not
EofCancel(follow) == IF follow THEN "nil" ELSE "closed"

\* stream, lines 212-218: an offset from the end is taken from the size
StreamOffset(origin, size, offset) ==
    IF origin = "end" THEN Max(0, size - offset) ELSE offset

\* the serve loop runs, the producer goroutine and the peer-closure watcher
\* have been started: stream lines 241-266, logs lines 411-437
Started == mpc = "select" /\ ppc = "run" /\ wpc = "read"

\* what stream and logs share at the start, but for the number of events to
\* come and the goroutines
InitCommon ==
    /\ wr = 0
    /\ conn = [peer |-> "open", closed |-> FALSE]
    /\ wire = <<>>
    /\ errRec = <<>>
    /\ ctxDone = FALSE
    /\ frames = <<>>
    /\ chg = NoChanges
    /\ bw = NoWorker
    /\ oldw = {}
    /\ perr = Nil
    /\ werr = Nil
    /\ dfr = <<>>
    /\ streamErr = Nil
    /\ hist = NoHist

\* stream, lines 199-250: the file exists and is no directory, the framer runs,
\* eofCancelCh is closed unless the request follows, and the goroutine that
\* calls streamFile has been started
InitStreamWith(events) ==
    /\ mode = "stream"
    /\ \E size \in 0 .. MaxFileLen, follow \in BOOLEAN,
          origin \in {"start", "end"}, offset \in 0 .. MaxOffset, limit \in 0 .. MaxLimit :
          /\ fsys = [p \in Paths |->
                        IF p = 0 THEN [exists |-> TRUE, used |-> TRUE, data |-> InitData(0, size)]
                        ELSE [exists |-> FALSE, used |-> FALSE, data |-> <<>>]]
          /\ req = [follow |-> follow, offset |-> StreamOffset(origin, size, offset),
                    limit |-> limit]
          /\ t = Call(StreamOffset(origin, size, offset), 0, limit)
          /\ eofc = EofCancel(follow)
    /\ fr = [state |-> "running", f |-> <<>>, path |-> 0, off |-> 0]
    /\ lg = NoDriver
    /\ fc = NoFind
    /\ nl = NoNextLog
    /\ bud = events
    /\ Started
    /\ InitCommon

InitStream == InitStreamWith(MaxEvents)

\* logs, lines 404-419: the task exists and has started; the goroutine that
\* calls logsImpl has been started
InitLogsWith(follows) ==
    /\ mode = "logs"
    /\ \E sizes \in [0 .. MaxIdx -> (-1) .. MaxFileLen], follow \in follows,
          origin \in {"start", "end"}, offset \in 0 .. MaxOffset :
          /\ fsys = [p \in Paths |->
                        IF p <= MaxIdx /\ sizes[p] >= 0
                        THEN [exists |-> TRUE, used |-> TRUE, data |-> InitData(p, sizes[p])]
                        ELSE [exists |-> FALSE, used |-> FALSE, data |-> <<>>]]
          /\ req = [follow |-> follow, origin |-> origin, offset |-> offset]
    /\ t = NoCall
    /\ eofc = "nil"
    /\ fr = [state |-> "none", f |-> <<>>, path |-> 0, off |-> 0]
    /\ lg = [NoDriver EXCEPT !.pc = "start"]
    /\ fc = NoFind
    /\ nl = NoNextLog
    /\ bud = MaxEvents
    /\ Started
    /\ InitCommon

InitLogs == InitLogsWith(BOOLEAN)

\* a log request from the end over segments 0 and 2, index 1 being absent;
\* its offset may reach back past segment 2
InitLogsGap ==
    /\ mode = "logs"
    /\ \E s0 \in 0 .. MaxFileLen, s2 \in 0 .. MaxFileLen, follow \in BOOLEAN,
          offset \in 0 .. (MaxFileLen + MaxOffset) :
          /\ fsys = [p \in Paths |->
                        IF p = 0 THEN [exists |-> TRUE, used |-> TRUE, data |-> InitData(0, s0)]
                        ELSE IF p = 2
                        THEN [exists |-> TRUE, used |-> TRUE, data |-> InitData(2, s2)]
                        ELSE [exists |-> FALSE, used |-> FALSE, data |-> <<>>]]
          /\ req = [follow |-> follow, origin |-> "end", offset |-> offset]
    /\ t = NoCall
    /\ eofc = "nil"
    /\ fr = [state |-> "none", f |-> <<>>, path |-> 0, off |-> 0]
    /\ lg = [NoDriver EXCEPT !.pc = "start"]
    /\ fc = NoFind
    /\ nl = NoNextLog
    /\ bud = MaxEvents
    /\ Started
    /\ InitCommon

\* a log request from the start that follows, over segment 0 alone, with
\* room for one event more: an append to the segment and the rotation
InitLogsRotate ==
    /\ mode = "logs"
    /\ \E s0 \in 0 .. MaxFileLen :
          /\ fsys = [p \in Paths |->
                        IF p = 0 THEN [exists |-> TRUE, used |-> TRUE, data |-> InitData(0, s0)]
                        ELSE [exists |-> FALSE, used |-> FALSE, data |-> <<>>]]
          /\ req = [follow |-> TRUE, origin |-> "start", offset |-> 0]
    /\ t = NoCall
    /\ eofc = "nil"
    /\ fr = [state |-> "none", f |-> <<>>, path |-> 0, off |-> 0]
    /\ lg = [NoDriver EXCEPT !.pc = "start"]
    /\ fc = NoFind
    /\ nl = NoNextLog
    /\ bud = MaxEvents + 1
    /\ Started
    /\ InitCommon

Init == InitStream \/ InitLogs

\* ------------------------------------------------------------------ streamFile
\* every variable but t, fr, frames, chg, bud, hist, bw
tailRest == <<mode, fc, nl, req, fsys, wr, conn, wire, errRec, ctxDone, eofc, oldw, lg,
              ppc, perr, wpc, werr, mpc, dfr, streamErr>>

\* lines 601-605 and 685-689: fs.ReadAt has returned a file, and its Close is
\* deferred.  handles holds, for every file the call has opened, whether it
\* is still open; defers holds the files the deferred calls are to close.
Opened(tt) ==
    [tt EXCEPT !.handles = Append(@, TRUE), !.defers = Append(@, Len(tt.handles) + 1)]

\* line 678: the file that is read is closed
CloseFile(tt) == [tt EXCEPT !.handles[Len(tt.handles)] = FALSE]

\* a variant of RunDefers that runs the deferred call of line 605 only
RunDefersFirst(tt) ==
    [tt EXCEPT !.handles = [i \in DOMAIN @ |-> @[i] /\ (tt.defers = <<>> \/ i # tt.defers[1])]]

\* the deferred calls of lines 605 and 689 run when streamFile returns: each
\* closes the file it was deferred for
RunDefers(tt) ==
    [tt EXCEPT !.handles = [i \in DOMAIN @ |->
                               @[i] /\ ~\E j \in DOMAIN tt.defers : tt.defers[j] = i]]

\* streamFile returns err
TRet(tt, err) == [RunDefers(tt) EXCEPT !.pc = "ret", !.res = err, !.emit = <<>>]

\* where streamFile goes once it has read: on after a read without error,
\* to the change watcher at EOF
AtEOF(tt) == [tt EXCEPT !.pc = IF tt.changes THEN "wait" ELSE "eof"]

\* framer.Send has returned nil: lines 651-660, or line 675 for the delete event
AfterSend(tt) ==
    LET t1 == [tt EXCEPT !.emit = <<>>, !.lastEvent = ""]
    IN  IF tt.after = "ret" THEN TRet(t1, parseFramerErr(Nil))
        ELSE IF tt.eof THEN AtEOF(t1)
        ELSE [t1 EXCEPT !.pc = "read"]

\* lines 600-630: fs.ReadAt, the limit reader and the buffer
TailOpen ==
    /\ t.pc = "open"
    /\ IF fsys[t.path].exists
       THEN t' = [Opened(t) EXCEPT !.pc = "read",
                           !.N = IF t.limit > 0 THEN t.limit ELSE -1,
                           !.bufSize = IF t.limit > 0 /\ t.limit < streamFrameSize
                                       THEN t.limit ELSE streamFrameSize]
       ELSE t' = TRet(t, ENOENT)
    /\ UNCHANGED <<fr, frames, chg, bud, hist, bw>>
    /\ UNCHANGED tailRest

\* fs.ReadAt, fileReader.Read or fs.ChangeEvents fails with an I/O error
TailIOError ==
    /\ t.pc \in {"open", "read", "eof"}
    /\ bud > 0
    /\ bud' = bud - 1
    /\ t' = TRet(t, EIO)
    /\ hist' = [hist EXCEPT !.faulted = TRUE]
    /\ UNCHANGED <<fr, frames, chg, bw>>
    /\ UNCHANGED tailRest

\* a variant of ReadLen that reads past the limit
ReadLenNoLimit(tt) == Min(tt.bufSize, Max(0, Len(fsys[tt.path].data) - tt.offset))

\* the bytes one Read returns: at most the buffer, what the limit reader has
\* left, and what the file holds past the offset; 0 bytes come with io.EOF
ReadLen(tt) ==
    LET avail == Max(0, Len(fsys[tt.path].data) - tt.offset)
        room == IF tt.N >= 0 THEN Min(tt.bufSize, tt.N) ELSE tt.bufSize
    IN  Min(room, avail)

\* history: framer.Send(file, ev, data, off) was called with n bytes of data
\* and returned nil; before is the offset streamFile had reached when it saw
\* the truncation that ev reports, call counts the streamFile calls before
Sent(file, ev, n, off) ==
    [hist EXCEPT !.sends = Append(@, [File |-> file, FileEvent |-> ev, n |-> n,
                                      Offset |-> off, before |-> hist.truncAt,
                                      call |-> Len(hist.streamed)]),
                 !.truncAt = 0]

\* lines 632-660: one Read and the Send of what it returned
TailRead ==
    /\ t.pc = "read"
    /\ LET n == ReadLen(t)
           off == t.offset + n
           data == SubSeq(fsys[t.path].data, t.offset + 1, off)
           t1 == [t EXCEPT !.offset = off, !.eof = (n = 0), !.after = "loop",
                           !.N = IF t.N >= 0 THEN t.N - n ELSE t.N]
       IN  IF n # 0 \/ t.lastEvent # ""
           THEN IF ~SendFails(fr)
                THEN LET s == FramerSend(fr.f, t.path, t.lastEvent, data, off)
                     IN  /\ fr' = [fr EXCEPT !.f = s.f, !.path = t.path, !.off = off]
                         /\ t' = IF s.emit = <<>> THEN AfterSend(t1)
                                 ELSE [t1 EXCEPT !.emit = s.emit, !.pc = "send"]
                         /\ hist' = Sent(t.path, t.lastEvent, n, off)
                ELSE /\ \E e \in FramerErrs : t' = TRet(t1, parseFramerErr(e))
                     /\ fr' = fr
                     /\ hist' = hist
           ELSE t' = AtEOF(t1) /\ fr' = fr /\ hist' = hist
    /\ UNCHANGED <<frames, chg, bud, bw>>
    /\ UNCHANGED tailRest

\* a Send that has frames to emit puts the next one on the frame channel
TailEmit ==
    /\ t.pc = "send"
    /\ fr.state = "running"
    /\ t.emit # <<>>
    /\ Len(frames) < streamFramesBuffer
    /\ frames' = Append(frames, Head(t.emit))
    /\ t' = IF Len(t.emit) = 1 THEN AfterSend(t) ELSE [t EXCEPT !.emit = Tail(t.emit)]
    /\ UNCHANGED <<fr, chg, bud, hist, bw>>
    /\ UNCHANGED tailRest

\* a Send blocked on the frame channel is let go when the framer is told to
\* exit; it returns nil
TailSendReleased ==
    /\ t.pc = "send"
    /\ fr.state # "running"
    /\ t' = AfterSend(t)
    /\ UNCHANGED <<fr, frames, chg, bud, hist, bw>>
    /\ UNCHANGED tailRest

\* lines 662-668: the change watcher is created at the first EOF; it reports
\* what differs from the offset it is given
TailChangeEvents ==
    /\ t.pc = "eof"
    /\ t' = [t EXCEPT !.pc = "wait", !.changes = TRUE]
    /\ chg' = [Modified |-> Len(fsys[t.path].data) > t.offset,
               Deleted |-> ~fsys[t.path].exists,
               Truncated |-> Len(fsys[t.path].data) < t.offset]
    /\ UNCHANGED <<fr, frames, bud, hist, bw>>
    /\ UNCHANGED tailRest

\* lines 672-673
TailModified ==
    /\ t.pc = "wait"
    /\ chg.Modified
    /\ chg' = [chg EXCEPT !.Modified = FALSE]
    /\ t' = [t EXCEPT !.pc = "read"]
    /\ UNCHANGED <<fr, frames, bud, hist, bw>>
    /\ UNCHANGED tailRest

\* lines 674-675: the delete event is sent and its result returned
TailDeleted ==
    /\ t.pc = "wait"
    /\ chg.Deleted
    /\ chg' = [chg EXCEPT !.Deleted = FALSE]
    /\ LET t1 == [t EXCEPT !.after = "ret"]
       IN  IF ~SendFails(fr)
           THEN LET s == FramerSend(fr.f, t.path, deleteEvent, <<>>, t.offset)
                IN  /\ fr' = [fr EXCEPT !.f = s.f, !.path = t.path, !.off = t.offset]
                    /\ t' = [t1 EXCEPT !.emit = s.emit, !.pc = "send"]
                    /\ hist' = [Sent(t.path, deleteEvent, 0, t.offset)
                                   EXCEPT !.removedAtEOF = TRUE]
           ELSE /\ \E e \in FramerErrs : t' = TRet(t1, parseFramerErr(e))
                /\ fr' = fr
                /\ hist' = [hist EXCEPT !.removedAtEOF = TRUE]
    /\ UNCHANGED <<frames, bud, bw>>
    /\ UNCHANGED tailRest

\* a variant of ReopenN that gives the reader opened after a truncation the
\* whole limit again
ReopenNFresh(tt) == IF tt.limit > 0 THEN tt.limit ELSE -1

\* lines 691-701: what the limit reader opened after a truncation may still
\* read: what the reader before it had left (lr.N); -1 stands for no limit
ReopenN(tt) == tt.N

\* a variant of ReopenOffset that keeps the offset reached before the truncation
ReopenOffsetKept(tt) == tt.offset

\* lines 682-683: the offset is set to 0 and the file read from there
ReopenOffset(tt) == 0

\* a variant of ReopenEvent that leaves the truncation unannounced
ReopenEventNone(tt) == ""

\* lines 703-704: the next Send is to carry the truncate event
ReopenEvent(tt) == truncateEvent

\* lines 676-705: the file is closed and reopened at offset 0; a limit reader
\* keeps what it had left
TailTruncated ==
    /\ t.pc = "wait"
    /\ chg.Truncated
    /\ chg' = [chg EXCEPT !.Truncated = FALSE]
    /\ IF fsys[t.path].exists
       THEN /\ t' = [Opened(CloseFile(t)) EXCEPT
                               !.pc = "read", !.offset = ReopenOffset(t),
                               !.lastEvent = ReopenEvent(t), !.N = ReopenN(t)]
            /\ hist' = [hist EXCEPT !.truncAt = t.offset]
       ELSE /\ t' = TRet([CloseFile(t) EXCEPT !.offset = 0], ENOENT)
            /\ hist' = [hist EXCEPT !.removedAtEOF = TRUE]
    /\ UNCHANGED <<fr, frames, bud, bw>>
    /\ UNCHANGED tailRest

\* lines 706-707
TailFramerExit ==
    /\ t.pc = "wait"
    /\ fr.state # "running"
    /\ t' = TRet(t, Nil)
    /\ UNCHANGED <<fr, frames, chg, bud, hist, bw>>
    /\ UNCHANGED tailRest

\* lines 708-709
TailCtxDone ==
    /\ t.pc = "wait"
    /\ ctxDone
    /\ t' = TRet(t, Nil)
    /\ UNCHANGED <<fr, frames, chg, bud, hist, bw>>
    /\ UNCHANGED tailRest

\* lines 710-715: a closed eofCancelCh gives nil, a value on it is returned;
\* history: eofLeft holds the file and the offset reached, and what was returned
TailEofCancel ==
    /\ t.pc = "wait"
    /\ \/ eofc = "closed"
       \/ eofc = "chan" /\ (bw.buf # <<>> \/ bw.closed)
    /\ IF eofc = "chan" /\ bw.buf # <<>>
       THEN t' = TRet(t, bw.buf[1]) /\ bw' = [bw EXCEPT !.buf = <<>>]
       ELSE t' = TRet(t, Nil) /\ bw' = bw
    /\ hist' = [hist EXCEPT !.eofLeft = Append(@, [File |-> t.path, Offset |-> t.offset,
                                                  res |-> t'.res])]
    /\ UNCHANGED <<fr, frames, chg, bud>>
    /\ UNCHANGED tailRest

TailNext ==
    \/ TailOpen \/ TailIOError \/ TailRead \/ TailEmit \/ TailSendReleased
    \/ TailChangeEvents \/ TailModified \/ TailDeleted \/ TailTruncated
    \/ TailFramerExit \/ TailCtxDone \/ TailEofCancel

\* ------------------------------------------------------------------ the framer
\* every variable but frames, fr, bud
framerRest == <<mode, fc, nl, req, fsys, wr, conn, wire, errRec, ctxDone, t, chg, eofc, bw,
                oldw, lg, ppc, perr, wpc, werr, mpc, dfr, streamErr, hist>>

\* the batch timer fires: the pending frame is emitted
FramerFlush ==
    /\ fr.state = "running"
    /\ fr.f # <<>>
    /\ t.pc # "send"
    /\ Len(frames) < streamFramesBuffer
    /\ frames' = Append(frames, fr.f[1])
    /\ fr' = [fr EXCEPT !.f = <<>>]
    /\ UNCHANGED bud
    /\ UNCHANGED framerRest

\* the heartbeat timer fires on an idle framer: an empty frame with the path
\* and offset of the last Send
FramerHeartbeat ==
    /\ fr.state = "running"
    /\ fr.f = <<>>
    /\ t.pc # "send"
    /\ bud > 0
    /\ Len(frames) < streamFramesBuffer
    /\ frames' = Append(frames, StreamFrame(fr.path, "", <<>>, fr.off))
    /\ bud' = bud - 1
    /\ UNCHANGED fr
    /\ UNCHANGED framerRest

\* Destroy, the caller's part: the framer is told to exit (idempotent)
DestroySignal(f) == IF f.state = "running" THEN [f EXCEPT !.state = "shutdown"] ELSE f

\* Destroy, the framer's part: the pending frame is flushed and the frame
\* channel closed.  The flush waits for room on the channel as long as the
\* serve loop receives from it; a frame no one can receive is dropped.
FramerExit ==
    /\ fr.state = "shutdown"
    /\ t.pc # "send"
    /\ fr.f = <<>> \/ Len(frames) < streamFramesBuffer \/ mpc # "select"
    /\ frames' = IF fr.f # <<>> /\ Len(frames) < streamFramesBuffer
                 THEN Append(frames, fr.f[1]) ELSE frames
    /\ fr' = [fr EXCEPT !.state = "destroyed", !.f = <<>>]
    /\ UNCHANGED bud
    /\ UNCHANGED framerRest

FramerNext == FramerFlush \/ FramerHeartbeat \/ FramerExit

\* ------------------------------------------------------------------ the environment
\* every variable but fsys, wr, bud, chg, conn, hist
envRest == <<mode, fc, nl, req, wire, errRec, ctxDone, frames, fr, t, eofc, bw, oldw, lg,
             ppc, perr, wpc, werr, mpc, dfr, streamErr>>

\* the paths the session looks at
EnvPaths == IF mode = "stream" THEN {0} ELSE Paths

\* streamFile has a change watcher on path p
Watched(p) == t.changes /\ t.path = p /\ t.pc \notin {"idle", "ret"}

\* an event costs one unit of the budget; events after the session function
\* has returned are not looked at
EnvSpend ==
    /\ bud > 0
    /\ mpc # "done"
    /\ bud' = bud - 1

\* a writer appends one byte to a file
EnvAppend ==
    /\ EnvSpend
    /\ \E p \in EnvPaths :
          /\ fsys[p].exists
          /\ fsys' = [fsys EXCEPT ![p].data = Append(@, 100 + wr)]
          /\ chg' = IF Watched(p) THEN [chg EXCEPT !.Modified = TRUE] ELSE chg
    /\ wr' = wr + 1
    /\ hist' = [hist EXCEPT !.envTouched = TRUE]
    /\ UNCHANGED conn
    /\ UNCHANGED envRest

\* a file is truncated to a shorter length
EnvTruncate ==
    /\ EnvSpend
    /\ \E p \in EnvPaths :
          /\ fsys[p].exists
          /\ \E k \in 0 .. (Len(fsys[p].data) - 1) :
                fsys' = [fsys EXCEPT ![p].data = Take(@, k)]
          /\ chg' = IF Watched(p) THEN [chg EXCEPT !.Truncated = TRUE] ELSE chg
    /\ hist' = [hist EXCEPT !.envTouched = TRUE, !.shrunk = TRUE]
    /\ UNCHANGED <<wr, conn>>
    /\ UNCHANGED envRest

\* a file is removed
EnvDelete ==
    /\ EnvSpend
    /\ \E p \in EnvPaths :
          /\ fsys[p].exists
          /\ fsys' = [fsys EXCEPT ![p].exists = FALSE]
          /\ chg' = IF Watched(p) THEN [chg EXCEPT !.Deleted = TRUE] ELSE chg
    /\ hist' = [hist EXCEPT !.envTouched = TRUE, !.shrunk = TRUE]
    /\ UNCHANGED <<wr, conn>>
    /\ UNCHANGED envRest

\* the log rotation creates a new, empty segment; history: rotLen holds, for
\* every segment below it that had none above it so far, the bytes written
\* to that segment by now
EnvCreate ==
    /\ mode = "logs"
    /\ EnvSpend
    /\ \E p \in Paths :
          /\ ~fsys[p].used
          /\ fsys' = [fsys EXCEPT ![p] = [exists |-> TRUE, used |-> TRUE, data |-> <<>>]]
          /\ hist' = [hist EXCEPT
                         !.envTouched = TRUE,
                         !.rotLen = [q \in Paths |->
                                        IF q < p /\ fsys[q].exists /\ @[q] = -1
                                           /\ ~\E o \in Paths : o > q /\ fsys[o].exists
                                        THEN Len(fsys[q].data) ELSE @[q]]]
    /\ UNCHANGED <<wr, conn, chg>>
    /\ UNCHANGED envRest

\* the remote peer closes the connection
EnvPeerClose ==
    /\ EnvSpend
    /\ conn.peer = "open"
    /\ ~conn.closed
    /\ conn' = [conn EXCEPT !.peer = "closed"]
    /\ UNCHANGED <<fsys, wr, chg, hist>>
    /\ UNCHANGED envRest

\* the connection breaks: reads and writes fail from now on
EnvConnBreak ==
    /\ EnvSpend
    /\ conn.peer = "open"
    /\ ~conn.closed
    /\ conn' = [conn EXCEPT !.peer = "broken"]
    /\ UNCHANGED <<fsys, wr, chg, hist>>
    /\ UNCHANGED envRest

EnvNext ==
    \/ EnvAppend \/ EnvTruncate \/ EnvDelete \/ EnvCreate
    \/ EnvPeerClose \/ EnvConnBreak

\* ------------------------------------------------------------------ the producer goroutine
\* stream, lines 241-250: streamFile has returned; an error is offered on
\* errCh, then the framer is destroyed
StreamProdReturn ==
    /\ mode = "stream"
    /\ ppc = "run"
    /\ t.pc = "ret"
    /\ t' = [t EXCEPT !.pc = "idle"]
    /\ IF t.res # Nil
       THEN /\ ppc' = "report"
            /\ perr' = t.res
            /\ fr' = fr
       ELSE /\ ppc' = "destroying"
            /\ perr' = perr
            /\ fr' = DestroySignal(fr)
    /\ hist' = [hist EXCEPT !.lastRes = t.res,
                            !.epipe = @ \/ t.res = EPIPE,
                            !.prodFatal = @ \/ (t.res # Nil /\ ~ctxDone /\ conn.peer = "open")]
    /\ UNCHANGED <<mode, fc, nl, req, fsys, wr, bud, conn, wire, errRec, ctxDone, frames, chg,
                   eofc, bw, oldw, lg, wpc, werr, mpc, dfr, streamErr>>

\* lines 245 and 416: the scope is done before the serve loop takes the error
ProdReportCtxDone ==
    /\ ppc = "report"
    /\ ctxDone
    /\ ppc' = IF mode = "stream" THEN "destroying" ELSE "done"
    /\ fr' = IF mode = "stream" THEN DestroySignal(fr) ELSE fr
    /\ UNCHANGED <<mode, fc, nl, req, fsys, wr, bud, conn, wire, errRec, ctxDone, frames, t, chg,
                   eofc, bw, oldw, lg, perr, wpc, werr, mpc, dfr, streamErr, hist>>

\* line 249: framer.Destroy has returned and the goroutine ends
StreamProdDone ==
    /\ mode = "stream"
    /\ ppc = "destroying"
    /\ fr.state = "destroyed"
    /\ ppc' = "done"
    /\ UNCHANGED <<mode, fc, nl, req, fsys, wr, bud, conn, wire, errRec, ctxDone, frames, fr, t,
                   chg, eofc, bw, oldw, lg, perr, wpc, werr, mpc, dfr, streamErr, hist>>

\* ------------------------------------------------------------------ the peer-closure watcher
\* what conn.Read(nil) returns; it blocks on an open connection
ReadErrs ==
    (IF conn.closed THEN {EOF, ErrClosedPipe} ELSE {})
    \cup (IF conn.peer = "closed" THEN {EOF} ELSE {})
    \cup (IF conn.peer = "broken" THEN {ECONNRESET} ELSE {})

\* the errors on which the watcher cancels the scope and returns:
\* stream line 256, logs line 425
WatcherClean(md) == IF md = "stream" THEN {EOF} ELSE {EOF, ErrClosedPipe}

\* lines 253-259 and 422-429
WatchRead ==
    /\ wpc = "read"
    /\ \E e \in ReadErrs :
          IF e \in WatcherClean(mode)
          THEN /\ ctxDone' = TRUE
               /\ wpc' = "done"
               /\ werr' = werr
               /\ hist' = [hist EXCEPT !.peerEOF = @ \/ (conn.peer = "closed" /\ ~conn.closed)]
          ELSE /\ wpc' = "report"
               /\ werr' = e
               /\ UNCHANGED <<ctxDone, hist>>
    /\ UNCHANGED <<mode, fc, nl, req, fsys, wr, bud, conn, wire, errRec, frames, fr, t, chg, eofc,
                   bw, oldw, lg, ppc, perr, mpc, dfr, streamErr>>

\* lines 262-263 and 432-434
WatchReportCtxDone ==
    /\ wpc = "report"
    /\ ctxDone
    /\ wpc' = "done"
    /\ UNCHANGED <<mode, fc, nl, req, fsys, wr, bud, conn, wire, errRec, ctxDone, frames, fr, t,
                   chg, eofc, bw, oldw, lg, ppc, perr, werr, mpc, dfr, streamErr, hist>>

\* ------------------------------------------------------------------ the serve loop
\* a variant of Deferred without the deferred cancel()
DeferredNoCancel(md) == IF md = "stream" THEN <<"destroy", "close">> ELSE <<"close">>

\* the deferred calls of the session function, in the order they run:
\* stream lines 149, 228, 238; logs lines 312, 405
Deferred(md) ==
    IF md = "stream" THEN <<"cancel", "destroy", "close">> ELSE <<"cancel", "close">>

\* leaving the serve loop: lines 303-306 and 474-477 come next
Break(err, by) ==
    /\ mpc' = "break"
    /\ streamErr' = err
    /\ hist' = [hist EXCEPT !.breakBy = by]

\* lines 273-274 and 445-446, the error being the producer's
ServeErrProducer ==
    /\ mpc = "select"
    /\ ppc = "report"
    /\ Break(perr, "producer")
    /\ ppc' = IF mode = "stream" THEN "destroying" ELSE "done"
    /\ fr' = IF mode = "stream" THEN DestroySignal(fr) ELSE fr
    /\ UNCHANGED <<mode, fc, nl, req, fsys, wr, bud, conn, wire, errRec, ctxDone, frames, t, chg,
                   eofc, bw, oldw, lg, perr, wpc, werr, dfr>>

\* lines 273-274 and 445-446, the error being the watcher's; the watcher of
\* stream reads again, the watcher of logs returns
ServeErrWatcher ==
    /\ mpc = "select"
    /\ wpc = "report"
    /\ Break(werr, "watcher")
    /\ wpc' = IF mode = "stream" THEN "read" ELSE "done"
    /\ UNCHANGED <<mode, fc, nl, req, fsys, wr, bud, conn, wire, errRec, ctxDone, frames, fr, t,
                   chg, eofc, bw, oldw, lg, ppc, perr, werr, dfr>>

\* what encoder.Encode on the connection returns
WriteResults ==
    IF conn.peer = "open" THEN {Nil}
    ELSE IF conn.peer = "closed" THEN {Nil, ErrClosedPipe, EPIPE}
    ELSE {ErrClosedPipe, EPIPE}

\* the payload of the response for a frame: its data when the request asks
\* for plain text, else its JSON encoding (which the frame stands for); the
\* choice changes no step of the session, so wire records the frame
Payload(plainText, frame) == IF plainText THEN frame.Data ELSE <<frame>>

\* lines 275-297 and 447-470: a frame is taken and written to the connection
ServeFrame ==
    /\ mpc = "select"
    /\ frames # <<>>
    /\ frames' = Tail(frames)
    /\ \E r \in WriteResults :
          IF r = Nil
          THEN /\ wire' = Append(wire, Head(frames))
               /\ UNCHANGED <<mpc, streamErr, hist>>
          ELSE /\ Break(r, "write")
               /\ wire' = wire
    /\ UNCHANGED <<mode, fc, nl, req, fsys, wr, bud, conn, errRec, ctxDone, fr, t, chg, eofc, bw,
                   oldw, lg, ppc, perr, wpc, werr, dfr>>

\* lines 276-278 and 448-450: the frame channel is closed and empty
ServeClosed ==
    /\ mpc = "select"
    /\ frames = <<>>
    /\ fr.state = "destroyed"
    /\ Break(Nil, "closed")
    /\ UNCHANGED <<mode, fc, nl, req, fsys, wr, bud, conn, wire, errRec, ctxDone, frames, fr, t,
                   chg, eofc, bw, oldw, lg, ppc, perr, wpc, werr, dfr>>

\* the serve loops that leave when the scope is done: stream does (lines
\* 298-299), logs has no such case
ServeSelectsCtx(md) == md = "stream"

ServeCtxDone ==
    /\ mpc = "select"
    /\ ServeSelectsCtx(mode)
    /\ ctxDone
    /\ Break(Nil, "ctx")
    /\ UNCHANGED <<mode, fc, nl, req, fsys, wr, bud, conn, wire, errRec, ctxDone, frames, fr, t,
                   chg, eofc, bw, oldw, lg, ppc, perr, wpc, werr, dfr>>

\* lines 86-95, called from lines 303-306 and 474-477
handleStreamResultError(err, code) ==
    IF ErrSuppressed(err) THEN errRec
    ELSE Append(errRec, [err |-> err, code |-> code, delivered |-> conn.peer = "open"])

ServeFinish ==
    /\ mpc = "break"
    /\ errRec' = IF streamErr # Nil THEN handleStreamResultError(streamErr, 500) ELSE errRec
    /\ mpc' = "defer"
    /\ dfr' = Deferred(mode)
    /\ UNCHANGED <<mode, fc, nl, req, fsys, wr, bud, conn, wire, ctxDone, frames, fr, t, chg,
                   eofc, bw, oldw, lg, ppc, perr, wpc, werr, streamErr, hist>>

\* the deferred calls: cancel(), framer.Destroy() up to its return, conn.Close()
MainDefer ==
    /\ mpc = "defer"
    /\ dfr # <<>>
    /\ Head(dfr) = "destroy" => fr.state = "destroyed"
    /\ dfr' = Tail(dfr)
    /\ ctxDone' = (ctxDone \/ Head(dfr) = "cancel")
    /\ conn' = IF Head(dfr) = "close" THEN [conn EXCEPT !.closed = TRUE] ELSE conn
    /\ mpc' = IF Len(dfr) = 1 THEN "done" ELSE mpc
    /\ UNCHANGED <<mode, fc, nl, req, fsys, wr, bud, wire, errRec, frames, fr, t, chg, eofc, bw,
                   oldw, lg, ppc, perr, wpc, werr, streamErr, hist>>

\* line 228, the deferred framer.Destroy() tells the framer to exit
MainDestroy ==
    /\ mpc = "defer"
    /\ dfr # <<>>
    /\ Head(dfr) = "destroy"
    /\ fr.state = "running"
    /\ fr' = DestroySignal(fr)
    /\ UNCHANGED <<mode, fc, nl, req, fsys, wr, bud, conn, wire, errRec, ctxDone, frames, t, chg,
                   eofc, bw, oldw, lg, ppc, perr, wpc, werr, mpc, dfr, streamErr, hist>>

SessionNext ==
    \/ StreamProdReturn \/ ProdReportCtxDone \/ StreamProdDone
    \/ WatchRead \/ WatchReportCtxDone
    \/ ServeErrProducer \/ ServeErrWatcher \/ ServeFrame \/ ServeClosed
    \/ ServeCtxDone \/ ServeFinish \/ MainDefer \/ MainDestroy

\* ------------------------------------------------------------------ the log-segment index
\* fs.List of the log directory followed by logIndexes: the index and size of
\* every segment of the task and log type
Entries == {[idx |-> p, size |-> Len(fsys[p].data)] : p \in {q \in Paths : fsys[q].exists}}

\* line 838, sort.Sort(indexes): the entries in ascending order of idx
RECURSIVE SortByIdx(_)
SortByIdx(es) ==
    IF es = {} THEN <<>>
    ELSE LET lo == CHOOSE e \in es : \A o \in es : e.idx <= o.idx
         IN  <<lo>> \o SortByIdx(es \ {lo})

\* a variant of Walk that steps back without taking the size of the segment
\* it leaves off the offset
RECURSIVE WalkNoCarry(_, _, _)
WalkNoCarry(indexes, i, offset) ==
    LET sz == indexes[i].size
    IN  IF offset = 0 THEN [i |-> i, offset |-> offset]
        ELSE IF offset < 0
        THEN IF sz + offset >= 0 THEN [i |-> i, offset |-> sz + offset]
             ELSE IF i = 1 THEN [i |-> i, offset |-> 0]
             ELSE WalkNoCarry(indexes, i - 1, offset)
        ELSE IF offset <= sz THEN [i |-> i, offset |-> offset]
             ELSE IF i = Len(indexes) THEN [i |-> i, offset |-> sz]
             ELSE WalkNoCarry(indexes, i + 1, offset - sz)

\* lines 846-888: the walk from position i (1-based) to the offset
RECURSIVE Walk(_, _, _)
Walk(indexes, i, offset) ==
    LET sz == indexes[i].size
    IN  IF offset = 0 THEN [i |-> i, offset |-> offset]
        ELSE IF offset < 0
        THEN IF sz + offset >= 0 THEN [i |-> i, offset |-> sz + offset]
             ELSE IF i = 1 THEN [i |-> i, offset |-> 0]
             ELSE Walk(indexes, i - 1, sz + offset)
        ELSE IF offset <= sz THEN [i |-> i, offset |-> offset]
             ELSE IF i = Len(indexes) THEN [i |-> i, offset |-> sz]
             ELSE Walk(indexes, i + 1, offset - sz)

\* lines 837-844, sort.Search: the first position whose idx >= desiredIdx,
\* the last position when there is none
SearchIdx(indexes, desiredIdx) ==
    LET geq == {i \in 1 .. Len(indexes) : indexes[i].idx >= desiredIdx}
    IN  IF geq = {} THEN Len(indexes)
        ELSE CHOOSE i \in geq : \A j \in geq : i <= j

\* lines 825-891
findClosest(entries, desiredIdx, desiredOffset) ==
    IF entries = {} THEN [err |-> ErrNoLogEntry, idx |-> 0, offset |-> 0]
    ELSE LET indexes == SortByIdx(entries)
             w == Walk(indexes, SearchIdx(indexes, desiredIdx), desiredOffset)
         IN  [err |-> Nil, idx |-> indexes[w.i].idx, offset |-> w.offset]

\* ------------------------------------------------------------------ findClosest, step by step
\* every variable but fc
findRest == <<mode, nl, req, fsys, wr, bud, conn, wire, errRec, ctxDone, frames, fr, t,
              chg, eofc, bw, oldw, lg, ppc, perr, wpc, werr, mpc, dfr, streamErr, hist>>

\* the offsets findClosest is called with reach past all segments together,
\* in both directions
MaxDesired == MaxFileLen * (MaxIdx + 2) + 1

\* the entries a listing may hold: any of the paths, each of any size
EntrySets ==
    {{[idx |-> p, size |-> sizes[p]] : p \in {q \in Paths : sizes[q] >= 0}} :
        sizes \in [Paths -> (-1) .. MaxFileLen]}

\* findClosest is called on its own: no session runs
InitFind ==
    /\ mode = "findClosest"
    /\ \E es \in EntrySets, di \in (0 .. (MaxIdx + 2)) \cup {MaxInt64},
          do \in (-MaxDesired) .. MaxDesired :
          fc = [NoFind EXCEPT !.pc = "call", !.entries = es, !.desiredIdx = di,
                              !.desiredOffset = do]
    /\ nl = NoNextLog
    /\ req = [follow |-> FALSE, origin |-> "start", offset |-> 0]
    /\ fsys = [p \in Paths |-> [exists |-> FALSE, used |-> FALSE, data |-> <<>>]]
    /\ t = NoCall
    /\ eofc = "nil"
    /\ fr = [state |-> "none", f |-> <<>>, path |-> 0, off |-> 0]
    /\ lg = NoDriver
    /\ bud = 0
    /\ mpc = "done" /\ ppc = "done" /\ wpc = "done"
    /\ InitCommon

\* a variant of WalkStep that does not clamp at the end of the last segment
WalkStepNoCeil(indexes, i, offset) ==
    LET s == indexes[i].size
    IN  IF offset = 0 THEN [i |-> i, offset |-> offset, done |-> TRUE]
        ELSE IF offset < 0
        THEN IF s + offset >= 0 THEN [i |-> i, offset |-> s + offset, done |-> TRUE]
             ELSE IF i = 1 THEN [i |-> i, offset |-> 0, done |-> TRUE]
             ELSE [i |-> i - 1, offset |-> s + offset, done |-> FALSE]
        ELSE IF offset <= s \/ i = Len(indexes)
             THEN [i |-> i, offset |-> offset, done |-> TRUE]
             ELSE [i |-> i + 1, offset |-> offset - s, done |-> FALSE]

\* a variant of WalkStep that does not clamp at the start of the first segment
WalkStepNoFloor(indexes, i, offset) ==
    LET s == indexes[i].size
    IN  IF offset = 0 THEN [i |-> i, offset |-> offset, done |-> TRUE]
        ELSE IF offset < 0
        THEN IF s + offset >= 0 \/ i = 1
             THEN [i |-> i, offset |-> s + offset, done |-> TRUE]
             ELSE [i |-> i - 1, offset |-> s + offset, done |-> FALSE]
        ELSE IF offset <= s THEN [i |-> i, offset |-> offset, done |-> TRUE]
             ELSE IF i = Len(indexes) THEN [i |-> i, offset |-> s, done |-> TRUE]
             ELSE [i |-> i + 1, offset |-> offset - s, done |-> FALSE]

\* a variant of WalkStep that steps back without taking the size of the
\* segment it leaves off the offset
WalkStepNoCarry(indexes, i, offset) ==
    LET s == indexes[i].size
    IN  IF offset = 0 THEN [i |-> i, offset |-> offset, done |-> TRUE]
        ELSE IF offset < 0
        THEN IF s + offset >= 0 THEN [i |-> i, offset |-> s + offset, done |-> TRUE]
             ELSE IF i = 1 THEN [i |-> i, offset |-> 0, done |-> TRUE]
             ELSE [i |-> i - 1, offset |-> offset, done |-> FALSE]
        ELSE IF offset <= s THEN [i |-> i, offset |-> offset, done |-> TRUE]
             ELSE IF i = Len(indexes) THEN [i |-> i, offset |-> s, done |-> TRUE]
             ELSE [i |-> i + 1, offset |-> offset - s, done |-> FALSE]

\* lines 849-888: one turn of the loop at position i (1-based): the position
\* and offset after it, and whether the loop was left
WalkStep(indexes, i, offset) ==
    LET s == indexes[i].size
    IN  IF offset = 0 THEN [i |-> i, offset |-> offset, done |-> TRUE]
        ELSE IF offset < 0
        THEN IF s + offset >= 0 THEN [i |-> i, offset |-> s + offset, done |-> TRUE]
             ELSE IF i = 1 THEN [i |-> i, offset |-> 0, done |-> TRUE]
             ELSE [i |-> i - 1, offset |-> s + offset, done |-> FALSE]
        ELSE IF offset <= s THEN [i |-> i, offset |-> offset, done |-> TRUE]
             ELSE IF i = Len(indexes) THEN [i |-> i, offset |-> s, done |-> TRUE]
             ELSE [i |-> i + 1, offset |-> offset - s, done |-> FALSE]

\* lines 829-848: no matching entry is an error; else the entries are sorted,
\* the position of desiredIdx is searched and the walk starts there
FindStart ==
    /\ fc.pc = "call"
    /\ IF fc.entries = {}
       THEN fc' = [fc EXCEPT !.pc = "done",
                             !.res = [err |-> ErrNoLogEntry, idx |-> 0, offset |-> 0]]
       ELSE LET indexes == SortByIdx(fc.entries)
            IN  fc' = [fc EXCEPT !.pc = "walk", !.indexes = indexes,
                                 !.i = SearchIdx(indexes, fc.desiredIdx),
                                 !.offset = fc.desiredOffset]
    /\ UNCHANGED findRest

\* lines 849-888: one turn of the loop; turns counts them
FindWalk ==
    /\ fc.pc = "walk"
    /\ LET w == WalkStep(fc.indexes, fc.i, fc.offset)
       IN  fc' = [fc EXCEPT !.i = w.i, !.offset = w.offset, !.turns = @ + 1,
                            !.pc = IF w.done THEN "return" ELSE "walk"]
    /\ UNCHANGED findRest

\* line 890
FindReturn ==
    /\ fc.pc = "return"
    /\ fc' = [fc EXCEPT !.pc = "done",
                        !.res = [err |-> Nil, idx |-> fc.indexes[fc.i].idx,
                                 offset |-> fc.offset]]
    /\ UNCHANGED findRest

FindNext == FindStart \/ FindWalk \/ FindReturn

\* ------------------------------------------------------------------ logsImpl
\* every variable but lg, t, fr, eofc, bw, oldw, bud, hist, ppc, perr
logsRest == <<mode, fc, nl, req, fsys, wr, conn, wire, errRec, ctxDone, frames, chg, wpc, werr,
              mpc, dfr, streamErr>>

\* logsImpl returns err: its deferred framer.Destroy() (line 490) runs first
LRet(err) == [lg EXCEPT !.pc = "destroying", !.res = err]

\* lines 487-505: the framer is created and run; nextIdx and offset by origin
LogsStart ==
    /\ lg.pc = "start"
    /\ fr' = [fr EXCEPT !.state = "running"]
    /\ lg' = [lg EXCEPT !.pc = "list",
                        !.nextIdx = IF req.origin = "end" THEN MaxInt64 ELSE 0,
                        !.offset = IF req.origin = "end" THEN -1 * req.offset ELSE req.offset]
    /\ UNCHANGED <<t, eofc, bw, oldw, bud, hist, ppc, perr>>
    /\ UNCHANGED logsRest

\* line 514-517: fs.List fails
LogsListFails ==
    /\ lg.pc = "list"
    /\ bud > 0
    /\ bud' = bud - 1
    /\ lg' = LRet(Wrap(EIO))
    /\ fr' = DestroySignal(fr)
    /\ hist' = [hist EXCEPT !.faulted = TRUE]
    /\ UNCHANGED <<t, eofc, bw, oldw, ppc, perr>>
    /\ UNCHANGED logsRest

\* line 546: blockUntilNextLog starts a worker; the one before it keeps
\* running if it has not sent yet
Spawn(nextIndex) ==
    /\ bw' = [pc |-> "block", nextIndex |-> nextIndex, buf |-> <<>>, closed |-> FALSE]
    /\ oldw' = IF bw.pc = "block" THEN oldw \cup {bw.nextIndex} ELSE oldw

\* a variant of TailsLast that never sees the last segment
TailsLastNever(follow, idx, maxIndex) == FALSE

\* lines 536-540: the segment is the last one of a request that does not
\* follow; it is tailed with a closed eofCancelCh and exitAfter is set
TailsLast(follow, idx, maxIndex) == ~follow /\ idx = maxIndex

\* lines 514-550: list, pick the segment, decide how the tailer is to end,
\* and call streamFile
LogsList ==
    /\ lg.pc = "list"
    /\ LET entries == Entries
           maxIndex == IF req.follow THEN MaxInt64
                       ELSE findClosest(entries, MaxInt64, 0).idx
           c == findClosest(entries, lg.nextIdx, lg.offset)
       IN  IF c.err # Nil
           THEN /\ lg' = LRet(c.err)
                /\ fr' = DestroySignal(fr)
                /\ UNCHANGED <<t, eofc, bw, oldw, hist>>
           ELSE IF ~req.follow /\ c.idx > maxIndex
           THEN /\ lg' = LRet(Nil)
                /\ fr' = DestroySignal(fr)
                /\ UNCHANGED <<t, eofc, bw, oldw, hist>>
           ELSE /\ lg' = [lg EXCEPT !.pc = "stream", !.idx = c.idx, !.maxIndex = maxIndex,
                                    !.exitAfter = TailsLast(req.follow, c.idx, maxIndex)]
                /\ IF TailsLast(req.follow, c.idx, maxIndex)
                   THEN eofc' = "closed" /\ UNCHANGED <<bw, oldw>>
                   ELSE eofc' = "chan" /\ Spawn(c.idx + 1)
                /\ t' = Call(c.offset, c.idx, 0)
                /\ hist' = hist
                /\ fr' = fr
    /\ UNCHANGED <<bud, ppc, perr>>
    /\ UNCHANGED logsRest

\* lines 552-590: what logsImpl does with the result of streamFile
LogsAfterStream ==
    /\ lg.pc = "stream"
    /\ t.pc = "ret"
    /\ t' = [t EXCEPT !.pc = "idle"]
    /\ LET ret(e) == lg' = LRet(e) /\ fr' = DestroySignal(fr)
       IN  IF ctxDone THEN ret(Nil)
           ELSE IF t.res # Nil
           THEN IF IsNotExist(t.res) THEN lg' = [lg EXCEPT !.pc = "list"] /\ fr' = fr
                ELSE IF t.res = EPIPE THEN ret(Nil)
                ELSE ret(Wrap(t.res))
           ELSE IF lg.exitAfter THEN ret(Nil)
           ELSE IF fr.state # "running" THEN ret(Nil)
           ELSE /\ lg' = [lg EXCEPT !.pc = "list", !.offset = 0, !.nextIdx = lg.idx + 1]
                /\ fr' = fr
    /\ hist' = [hist EXCEPT
                   !.lastRes = t.res,
                   !.epipe = @ \/ t.res = EPIPE,
                   !.completed = IF ~ctxDone /\ t.res = Nil /\ ~lg.exitAfter
                                    /\ fr.state = "running"
                                 THEN @ \cup {lg.idx} ELSE @,
                   !.streamed = Append(@, [idx |-> lg.idx, from |-> t.from, to |-> t.offset,
                                           res |-> t.res, last |-> lg.exitAfter,
                                           cancelled |-> ctxDone])]
    /\ UNCHANGED <<eofc, bw, oldw, bud, ppc, perr>>
    /\ UNCHANGED logsRest

\* lines 411-419: framer.Destroy has returned, logsImpl returns to the
\* goroutine, which offers an error on errCh
LogsReturn ==
    /\ lg.pc = "destroying"
    /\ fr.state = "destroyed"
    /\ lg' = [lg EXCEPT !.pc = "done"]
    /\ ppc' = IF lg.res # Nil THEN "report" ELSE "done"
    /\ perr' = lg.res
    /\ hist' = [hist EXCEPT !.prodFatal = @ \/ (lg.res # Nil /\ ~ctxDone /\ conn.peer = "open")]
    /\ UNCHANGED <<t, fr, eofc, bw, oldw, bud>>
    /\ UNCHANGED logsRest

\* ------------------------------------------------------------------ blockUntilNextLog
\* a segment with index nextIndex or above is there: fs.BlockUntilExists
\* fires for nextIndex itself, the scan of lines 748-771 for any of them
NextLogThere(nextIndex) == \E p \in Paths : p >= nextIndex /\ fsys[p].exists

\* lines 740-747 and 765-770: a worker sends nil on its channel and closes
\* it: the worker behind eofc, or one whose channel no streamFile call
\* reads any more (the channel has room for the one value)
WorkerSendsNil ==
    /\ \E n \in (IF bw.pc = "block" THEN {bw.nextIndex} ELSE {}) \cup oldw :
          /\ ctxDone \/ NextLogThere(n)
          /\ IF n \in oldw
             THEN oldw' = oldw \ {n} /\ bw' = bw
             ELSE /\ bw' = [bw EXCEPT !.pc = "done", !.buf = <<Nil>>, !.closed = TRUE]
                  /\ oldw' = oldw
    /\ UNCHANGED <<lg, t, fr, eofc, bud, hist, ppc, perr>>
    /\ UNCHANGED logsRest

\* lines 728-733 and 749-761: fs.BlockUntilExists or fs.List fails; the
\* worker sends the error and closes the channel
WorkerSendsErr ==
    /\ bw.pc = "block"
    /\ bud > 0
    /\ bud' = bud - 1
    /\ bw' = [bw EXCEPT !.pc = "done", !.buf = <<Wrap(EIO)>>, !.closed = TRUE]
    /\ hist' = [hist EXCEPT !.faulted = TRUE]
    /\ UNCHANGED <<lg, t, fr, eofc, oldw, ppc, perr>>
    /\ UNCHANGED logsRest

LogsNext ==
    \/ LogsStart \/ LogsListFails \/ LogsList \/ LogsAfterStream \/ LogsReturn
    \/ WorkerSendsNil \/ WorkerSendsErr

\* ------------------------------------------------------------------ blockUntilNextLog, step by step
\* every variable but nl, fsys, ctxDone, bud
nextLogRest == <<mode, fc, req, wr, conn, wire, errRec, frames, fr, t, chg, eofc, bw,
                 oldw, lg, ppc, perr, wpc, werr, mpc, dfr, streamErr, hist>>

\* blockUntilNextLog is called on its own, for an index above a segment that
\* is there; its channel goes to a streamFile call (lines 546-550)
InitNextLog ==
    /\ mode = "blockUntilNextLog"
    /\ \E sizes \in [0 .. MaxIdx -> (-1) .. MaxFileLen], n \in 1 .. (MaxIdx + 1) :
          /\ fsys = [p \in Paths |->
                        IF p <= MaxIdx /\ sizes[p] >= 0
                        THEN [exists |-> TRUE, used |-> TRUE, data |-> InitData(p, sizes[p])]
                        ELSE [exists |-> FALSE, used |-> FALSE, data |-> <<>>]]
          /\ nl = [NoNextLog EXCEPT !.pc = "call", !.nextIndex = n, !.listener = TRUE]
    /\ fc = NoFind
    /\ req = [follow |-> TRUE, origin |-> "start", offset |-> 0]
    /\ t = NoCall
    /\ eofc = "chan"
    /\ fr = [state |-> "none", f |-> <<>>, path |-> 0, off |-> 0]
    /\ lg = NoDriver
    /\ bud = MaxEvents
    /\ mpc = "done" /\ ppc = "done" /\ wpc = "done"
    /\ InitCommon

\* the worker has chosen the value it sends: why names the branch
Decided(why, val, seen) ==
    nl' = [nl EXCEPT !.pc = "send", !.why = why, !.val = val, !.seen = seen]

\* line 728: fs.BlockUntilExists returns its channel
NextLogBlockUntilExists ==
    /\ nl.pc = "call"
    /\ nl' = [nl EXCEPT !.pc = "select"]
    /\ UNCHANGED <<fsys, ctxDone, bud>>
    /\ UNCHANGED nextLogRest

\* lines 728-733, 744-747 and 749-761: fs.BlockUntilExists fails, its
\* channel delivers an error, or fs.List fails: the error is what is sent
NextLogFails ==
    /\ bud > 0
    /\ bud' = bud - 1
    /\ \/ nl.pc = "call" /\ Decided("block", EIO, 0)
       \/ nl.pc = "select" /\ Decided("exists", EIO, 0)
       \/ nl.pc = "select" /\ Decided("list", Wrap(EIO), 0)
    /\ UNCHANGED <<fsys, ctxDone>>
    /\ UNCHANGED nextLogRest

\* lines 740-743
NextLogCtxDone ==
    /\ nl.pc = "select"
    /\ ctxDone
    /\ Decided("ctx", Nil, 0)
    /\ UNCHANGED <<fsys, ctxDone, bud>>
    /\ UNCHANGED nextLogRest

\* lines 744-747: the channel of fs.BlockUntilExists delivers nil once the
\* segment nextIndex is there
NextLogExists ==
    /\ nl.pc = "select"
    /\ fsys[nl.nextIndex].exists
    /\ Decided("exists", Nil, nl.nextIndex)
    /\ UNCHANGED <<fsys, ctxDone, bud>>
    /\ UNCHANGED nextLogRest

\* lines 748-771: the ticker fires and the listing holds an index at or
\* above nextIndex (a listing that holds none leaves the worker in the loop)
NextLogScan ==
    /\ nl.pc = "select"
    /\ \E e \in Entries :
          /\ e.idx >= nl.nextIndex
          /\ Decided("scan", Nil, e.idx)
    /\ UNCHANGED <<fsys, ctxDone, bud>>
    /\ UNCHANGED nextLogRest

\* a variant of CanSend for a channel without a buffer: the send waits for
\* a receiver
CanSendUnbuffered(w) == w.listener

\* line 725, make(chan error, 1): a send returns at once while the channel
\* holds no value
CanSend(w) == Len(w.next) < 1

\* next <- value, lines 730, 741, 745, 751, 758 and 767
NextLogSend ==
    /\ nl.pc = "send"
    /\ CanSend(nl)
    /\ nl' = [nl EXCEPT !.pc = "close", !.next = Append(@, nl.val), !.sends = @ + 1]
    /\ UNCHANGED <<fsys, ctxDone, bud>>
    /\ UNCHANGED nextLogRest

\* close(next) and return, lines 731-732 and the like
NextLogClose ==
    /\ nl.pc = "close"
    /\ nl' = [nl EXCEPT !.pc = "done", !.closed = TRUE]
    /\ UNCHANGED <<fsys, ctxDone, bud>>
    /\ UNCHANGED nextLogRest

\* streamFile, lines 710-715: the call that listens receives the value, or
\* finds the channel closed, and returns
NextLogReceive ==
    /\ nl.listener
    /\ nl.next # <<>> \/ nl.closed
    /\ nl' = [nl EXCEPT !.listener = FALSE,
                        !.next = IF @ = <<>> THEN @ ELSE Tail(@),
                        !.received = IF nl.next = <<>> THEN @ ELSE Append(@, Head(nl.next))]
    /\ UNCHANGED <<fsys, ctxDone, bud>>
    /\ UNCHANGED nextLogRest

\* streamFile returns for another reason (lines 641, 647, 666, 675, 707,
\* 709): no one receives from the channel any more
NextLogListenerLeaves ==
    /\ nl.listener
    /\ nl' = [nl EXCEPT !.listener = FALSE]
    /\ UNCHANGED <<fsys, ctxDone, bud>>
    /\ UNCHANGED nextLogRest

\* the session's scope is cancelled
NextLogCancel ==
    /\ ~ctxDone
    /\ ctxDone' = TRUE
    /\ UNCHANGED <<nl, fsys, bud>>
    /\ UNCHANGED nextLogRest

\* the log rotation creates a new, empty segment
NextLogRotate ==
    /\ bud > 0
    /\ bud' = bud - 1
    /\ \E p \in Paths :
          /\ ~fsys[p].used
          /\ fsys' = [fsys EXCEPT ![p] = [exists |-> TRUE, used |-> TRUE, data |-> <<>>]]
    /\ UNCHANGED <<nl, ctxDone>>
    /\ UNCHANGED nextLogRest

\* the steps of the worker
NextLogWorker ==
    \/ NextLogBlockUntilExists \/ NextLogCtxDone \/ NextLogExists \/ NextLogScan
    \/ NextLogSend \/ NextLogClose

NextLogNext ==
    \/ NextLogWorker
    \/ NextLogFails \/ NextLogReceive \/ NextLogListenerLeaves
    \/ NextLogCancel \/ NextLogRotate

\* ------------------------------------------------------------------ logs: the task checks
\* what the client knows of the task a log request names: the allocation's
\* task group is found (tg), it has the task (inGroup), the allocation has a
\* state for the task (state) with a start time (started); and whether the
\* names that the error texts quote contain "closed"
Tasks ==
    [tg : BOOLEAN, inGroup : BOOLEAN, state : BOOLEAN, started : BOOLEAN,
     taskClosed : BOOLEAN, groupClosed : BOOLEAN]

\* a variant of TaskCheck that answers 404 for a task the group does not have
TaskCheckAll404(a) ==
    IF ~a.tg THEN [err |-> Err("Failed to lookup task group", FALSE), code |-> 500]
    ELSE IF ~a.inGroup
    THEN [err |-> Err("task group does not have task", a.groupClosed \/ a.taskClosed),
          code |-> 404]
    ELSE IF ~a.state \/ ~a.started
    THEN [err |-> Err("task not started yet", a.taskClosed), code |-> 404]
    ELSE [err |-> Nil, code |-> 0]

\* logs, lines 383-402: the error and code the checks of the task end with,
\* nil when they pass.  The texts quote the names of the task group and task.
TaskCheck(a) ==
    IF ~a.tg THEN [err |-> Err("Failed to lookup task group", FALSE), code |-> 500]
    ELSE IF ~a.inGroup
    THEN [err |-> Err("task group does not have task", a.groupClosed \/ a.taskClosed),
          code |-> 400]
    ELSE IF ~a.state \/ ~a.started
    THEN [err |-> Err("task not started yet", a.taskClosed), code |-> 404]
    ELSE [err |-> Nil, code |-> 0]

\* logs, lines 383-437: a failed check is answered through
\* handleStreamResultError and logs returns, which runs the deferred
\* conn.Close() of line 312; after the checks the goroutines are started
LogsCheck ==
    /\ mpc = "check"
    /\ LET c == TaskCheck(req.task)
       IN  IF c.err # Nil
           THEN /\ errRec' = handleStreamResultError(c.err, c.code)
                /\ mpc' = "defer"
                /\ dfr' = <<"close">>
                /\ UNCHANGED <<lg, ppc, wpc>>
           ELSE /\ mpc' = "select"
                /\ ppc' = "run"
                /\ wpc' = "read"
                /\ lg' = [lg EXCEPT !.pc = "start"]
                /\ UNCHANGED <<errRec, dfr>>
    /\ UNCHANGED <<mode, fc, nl, req, fsys, wr, bud, conn, wire, ctxDone, frames, fr, t, chg,
                   eofc, bw, oldw, perr, werr, streamErr, hist>>

\* a log request that does not follow has passed the validation of its
\* arguments and the lookup of its allocation: lines 312-381
InitLogsCheck ==
    /\ mode = "logs"
    /\ \E sizes \in [0 .. MaxIdx -> (-1) .. MaxFileLen],
          origin \in {"start", "end"}, offset \in 0 .. MaxOffset, a \in Tasks :
          /\ fsys = [p \in Paths |->
                        IF p <= MaxIdx /\ sizes[p] >= 0
                        THEN [exists |-> TRUE, used |-> TRUE, data |-> InitData(p, sizes[p])]
                        ELSE [exists |-> FALSE, used |-> FALSE, data |-> <<>>]]
          /\ req = [follow |-> FALSE, origin |-> origin, offset |-> offset, task |-> a]
    /\ t = NoCall
    /\ eofc = "nil"
    /\ fr = [state |-> "none", f |-> <<>>, path |-> 0, off |-> 0]
    /\ lg = NoDriver
    /\ fc = NoFind
    /\ nl = NoNextLog
    /\ bud = MaxEvents
    /\ mpc = "check" /\ ppc = "none" /\ wpc = "none"
    /\ InitCommon

\* ------------------------------------------------------------------ specification
\* the steps of the program, and the events around it
ProgramNext == TailNext \/ FramerNext \/ SessionNext \/ LogsNext
Next == ProgramNext \/ EnvNext
Spec == Init /\ [][Next]_vars

\* the file-stream session alone.  The goroutines of the session are
\* scheduled fairly: a step of the program that stays possible is taken.
StreamProgram == TailNext \/ FramerNext \/ SessionNext
StreamNext ==
    \/ StreamProgram
    \/ EnvAppend \/ EnvTruncate \/ EnvDelete \/ EnvPeerClose \/ EnvConnBreak
SpecStream == InitStream /\ [][StreamNext]_vars /\ WF_vars(StreamProgram)

\* the file-stream session with room for one event more: a truncation and
\* an append, or two appends
SpecTail == InitStreamWith(MaxEvents + 1) /\ [][StreamNext]_vars /\ WF_vars(StreamProgram)

\* the log-stream session of a request that does not follow, scheduled
\* fairly.  No one destroys the framer while logsImpl runs, and its serve
\* loop has no ctx.Done case.
LogsProgram ==
    \/ TailOpen \/ TailIOError \/ TailRead \/ TailEmit
    \/ TailChangeEvents \/ TailModified \/ TailDeleted \/ TailTruncated
    \/ TailCtxDone \/ TailEofCancel
    \/ FramerNext
    \/ ProdReportCtxDone \/ WatchRead \/ WatchReportCtxDone
    \/ ServeErrProducer \/ ServeErrWatcher \/ ServeFrame \/ ServeClosed
    \/ ServeFinish \/ MainDefer
    \/ LogsNext
LogsSessionNext == LogsProgram \/ EnvNext
SpecLogsNoFollow ==
    InitLogsWith({FALSE}) /\ [][LogsSessionNext]_vars /\ WF_vars(LogsProgram)

\* the log-stream session from the checks of the task on
SpecLogsCheck == InitLogsCheck /\ [][LogsCheck \/ LogsSessionNext]_vars

\* the log-stream session over segments 0 and 2
SpecLogsGap == InitLogsGap /\ [][LogsSessionNext]_vars

\* the log-stream session that follows segment 0 while the log is rotated
SpecLogsRotate == InitLogsRotate /\ [][LogsSessionNext]_vars

\* blockUntilNextLog alone.  The worker goroutine is scheduled fairly; no one
\* has to receive from its channel.
SpecNextLog == InitNextLog /\ [][NextLogNext]_vars /\ WF_vars(NextLogWorker)

\* findClosest alone; the call runs to its end
SpecFindClosest == InitFind /\ [][FindNext]_vars /\ WF_vars(FindNext)

\* ------------------------------------------------------------------ properties
\* the child workers of the session have all exited: the producer goroutine,
\* the peer-closure watcher and every blockUntilNextLog worker
ChildrenExited == ppc = "done" /\ wpc = "done" /\ bw.pc # "block" /\ oldw = {}

\* the bytes written to the connection for a request with plainText
PlainSent == Flatten([i \in 1 .. Len(wire) |-> Payload(TRUE, wire[i])])

\* a non-follow file stream that ran to its end over an untouched file, with
\* no I/O error and a peer that kept reading
QuietStreamDone ==
    /\ mode = "stream" /\ ~req.follow /\ mpc = "done"
    /\ ~hist.envTouched /\ ~hist.faulted /\ conn.peer = "open"

\* a non-follow log stream over an unchanged, non-empty directory, with no
\* I/O error and a peer that keeps reading
QuietLogs ==
    /\ mode = "logs" /\ ~req.follow /\ Entries # {}
    /\ ~hist.envTouched /\ ~hist.faulted /\ conn.peer = "open"

\* the segment a log request starts with
StartIdx ==
    findClosest(Entries, IF req.origin = "end" THEN MaxInt64 ELSE 0,
                IF req.origin = "end" THEN -1 * req.offset ELSE req.offset).idx

C2_CancelledWorkersExit ==
    ctxDone => (ChildrenExited /\ mpc = "done") \/ ENABLED ProgramNext

\* C3: once the watcher has read EOF from a peer that closed, no error record
\* is written or attempted on the connection that peer has left.
C3_NoErrorRecordAfterPeerEOF ==
    hist.peerEOF => \A i \in 1 .. Len(errRec) : errRec[i].delivered

\* C4: a producer that returned an error while the scope was not cancelled
\* and the peer was reading has that error written as a record with code
\* 500 before the session ends.
C4_ProducerErrorWritten ==
    (mpc = "done" /\ hist.prodFatal /\ conn.peer = "open") =>
        \E i \in 1 .. Len(errRec) : errRec[i].code = 500 /\ errRec[i].err = perr

\* C5: syscall.EPIPE out of parseFramerErr never reaches the client: the
\* producer can offer it on errCh only once the serve loop has left and the
\* scope is done, the serve loop never leaves with it as the producer's
\* error, and logsImpl never returns it.
C5_EpipeNeverSurfaced ==
    /\ (ppc = "report" /\ perr = EPIPE) => (ctxDone /\ mpc # "select")
    /\ hist.breakBy = "producer" => streamErr # EPIPE
    /\ lg.res # EPIPE

\* streamFile returned syscall.EPIPE and the session ended with no record of it
C5_EpipeDropped ==
    /\ hist.epipe /\ mpc = "done" /\ ppc = "done"
    /\ \A i \in 1 .. Len(errRec) : errRec[i].err # EPIPE

\* C6 as stated: the payloads of a quiet non-follow plain-text file stream
\* add up to the file from the open offset to its end.
C6_PayloadIsFileFromOffset ==
    QuietStreamDone => PlainSent = Drop(fsys[0].data, req.offset)

\* C6: the payloads of a quiet non-follow plain-text file stream whose open
\* offset lies within the file add up to the file from the open offset to
\* its end, cut to limit bytes when the request has a positive limit.
C6_PayloadIsFileFromOffsetToLimit ==
    (QuietStreamDone /\ req.offset <= Len(fsys[0].data)) =>
        PlainSent = Take(Drop(fsys[0].data, req.offset),
                         IF req.limit > 0 THEN req.limit ELSE Len(fsys[0].data))

\* a quiet non-follow file stream that needed more than one frame
C6_SeveralFramesSent == QuietStreamDone /\ Len(wire) >= 2 /\ Len(PlainSent) > streamFrameSize

C9_NeverRevisits ==
    lg.pc = "stream" => \A i \in hist.completed : lg.idx > i

\* C10: after the tailed segment was removed while streamFile sat at EOF,
\* logsImpl returns no error.
C10_RemovalNotReturned ==
    (mode = "logs" /\ hist.removedAtEOF /\ ~hist.faulted) => lg.res = Nil

\* the sizes of the entries, added up
RECURSIVE TotalSize(_)
TotalSize(es) ==
    IF es = {} THEN 0
    ELSE LET e == CHOOSE x \in es : TRUE IN e.size + TotalSize(es \ {e})

\* the entry with the lowest index
FirstEntry(es) == CHOOSE e \in es : \A o \in es : e.idx <= o.idx

\* findClosest has returned for a listing with a matching entry
FindDone == fc.pc = "done" /\ fc.entries # {}

\* the step-by-step call returns what the operator findClosest computes
FindAgrees ==
    fc.pc = "done" => fc.res = findClosest(fc.entries, fc.desiredIdx, fc.desiredOffset)

\* C11: for entries that are not empty, findClosest returns no error, the
\* index of one of the entries and an offset between 0 and the size of that
\* entry; and the walk terminates: the loop is entered at most once per
\* entry.
C11_OffsetWithinEntry ==
    /\ FindDone =>
          /\ fc.res.err = Nil
          /\ \E e \in fc.entries :
                e.idx = fc.res.idx /\ 0 <= fc.res.offset /\ fc.res.offset <= e.size
    /\ fc.pc = "walk" => fc.turns < Len(fc.indexes)
    /\ fc.pc \in {"return", "done"} => fc.turns <= Len(fc.indexes)

\* a forward walk crossed a segment and was clamped to the end of the last one
C11_ClampedAtLastEnd ==
    /\ FindDone /\ fc.desiredOffset > TotalSize(fc.entries)
    /\ fc.i = Len(fc.indexes) /\ fc.i > SearchIdx(fc.indexes, fc.desiredIdx)
    /\ fc.res.offset = fc.indexes[fc.i].size /\ fc.res.offset > 0

\* C12 as stated: a negative offset that reaches back as far as all segments
\* together or further gives the first segment at offset 0.
C12_BackPastAllGivesFirst ==
    (FindDone /\ fc.desiredOffset < 0 /\ -fc.desiredOffset >= TotalSize(fc.entries)) =>
        fc.res = [err |-> Nil, idx |-> FirstEntry(fc.entries).idx, offset |-> 0]

\* C12: a negative offset that reaches back further than all segments
\* together, or exactly as far while the first segment is not empty, gives the
\* first segment at offset 0.
C12_BackPastAllGivesFirstNonEmpty ==
    (/\ FindDone /\ fc.desiredOffset < 0
     /\ \/ -fc.desiredOffset > TotalSize(fc.entries)
        \/ /\ -fc.desiredOffset = TotalSize(fc.entries)
           /\ FirstEntry(fc.entries).size > 0) =>
        fc.res = [err |-> Nil, idx |-> FirstEntry(fc.entries).idx, offset |-> 0]

\* the walk went back from a later segment over a zero-size one and was
\* clamped at the start of the first
C12_WalkedBackToFirst ==
    /\ FindDone /\ fc.desiredOffset < 0 /\ -fc.desiredOffset > TotalSize(fc.entries)
    /\ Len(fc.indexes) = 3 /\ SearchIdx(fc.indexes, fc.desiredIdx) = 3
    /\ fc.indexes[2].size = 0 /\ fc.indexes[1].size > 0
    /\ fc.i = 1 /\ fc.res.offset = 0

\* the first frame written to the connection that carries payload bytes, as
\* a sequence of at most one frame
FirstPayload ==
    LET with == {i \in 1 .. Len(wire) : wire[i].Data # <<>>}
    IN  IF with = {} THEN <<>> ELSE <<wire[CHOOSE i \in with : \A j \in with : i <= j]>>

\* a log request from the end over untouched segments 0 and 2 only, whose
\* offset reaches back past segment 2 and not past segment 0, has had
\* payload written
GapCrossed ==
    /\ mode = "logs" /\ req.origin = "end" /\ ~hist.envTouched /\ ~hist.faulted
    /\ {e.idx : e \in Entries} = {0, 2}
    /\ req.offset > Len(fsys[2].data)
    /\ req.offset <= Len(fsys[0].data) + Len(fsys[2].data)
    /\ FirstPayload # <<>>

\* where the first payload byte lies in its file
FirstPayloadAt == FirstPayload[1].Offset - Len(FirstPayload[1].Data)

\* C13 as stated: with segments 0 (size 100) and 2 (size 50) and offset 80
\* from the end, the first payload byte is byte 100 + 50 - 80 of segment 2.
C13_FirstByteInSegment2 ==
    GapCrossed =>
        /\ FirstPayload[1].File = 2
        /\ FirstPayloadAt = Len(fsys[0].data) + Len(fsys[2].data) - req.offset

\* C13: with segments 0 (size 100) and 2 (size 50) and offset 80 from the end,
\* the first payload byte is byte 100 + 50 - 80 of segment 0: the walk goes
\* from segment 2 straight to segment 0.
C13_FirstByteInSegment0 ==
    GapCrossed =>
        /\ FirstPayload[1].File = 0
        /\ FirstPayloadAt = Len(fsys[0].data) + Len(fsys[2].data) - req.offset
        /\ FirstPayload[1].Data[1] = fsys[0].data[FirstPayloadAt + 1]

\* the walk crossed a segment 2 that is not empty and stopped inside segment 0
C13_WalkedOverGap ==
    /\ GapCrossed /\ Len(fsys[2].data) > 0 /\ FirstPayloadAt > 0
    /\ lg.pc = "done" /\ Len(hist.streamed) = 2

\* the Sends that carried the truncate event
TruncSends == {i \in 1 .. Len(hist.sends) : hist.sends[i].FileEvent = truncateEvent}

\* the Send after Send i is a data frame of the same streamFile call
DataFollows(i) ==
    /\ i < Len(hist.sends)
    /\ hist.sends[i + 1].FileEvent = ""
    /\ hist.sends[i + 1].call = hist.sends[i].call

\* the payload bytes passed to framer.Send so far
RECURSIVE SentBytes(_)
SentBytes(ss) == IF ss = <<>> THEN 0 ELSE Head(ss).n + SentBytes(Tail(ss))

\* C14 as stated: the frame sent with the truncate event carries the offset
\* reached before the truncation and no data; the data read after the reopen
\* comes in later frames.
C14_TruncateFrameCarriesOldOffset ==
    \A i \in TruncSends :
        hist.sends[i].Offset = hist.sends[i].before /\ hist.sends[i].n = 0

\* C14: the frame sent with the truncate event carries the bytes of the first
\* read after the reopen, and as its offset their number: the offset counted
\* from the start of the reopened file, whatever offset had been reached
\* before.
C14_TruncateFrameCarriesNewOffset ==
    \A i \in TruncSends :
        /\ hist.sends[i].Offset = hist.sends[i].n
        /\ hist.sends[i].n <= streamFrameSize

\* a truncation seen at one offset was announced by a frame that carries data
\* and another offset
C14_TruncateFrameWithData ==
    \E i \in TruncSends :
        /\ hist.sends[i].n > 0
        /\ hist.sends[i].before > hist.sends[i].Offset

\* C15 as stated: the data frame sent next after the frame with the truncate
\* event has an offset equal to the length of its own payload.
C15_NextDataOffsetIsOwnLength ==
    \A i \in TruncSends :
        DataFollows(i) => hist.sends[i + 1].Offset = hist.sends[i + 1].n

\* C15: the data frame sent next after the frame with the truncate event has
\* an offset equal to the length of its own payload plus that of the payload
\* the event frame carried.
C15_NextDataOffsetCountsEventData ==
    \A i \in TruncSends :
        DataFollows(i) =>
            hist.sends[i + 1].Offset = hist.sends[i].n + hist.sends[i + 1].n

\* the event frame carried data and a data frame followed it
C15_DataAfterEventData ==
    \E i \in TruncSends : DataFollows(i) /\ hist.sends[i].n > 0

\* the Sends after which a data frame was sent
BeforeData == {i \in 1 .. (Len(hist.sends) - 1) : hist.sends[i + 1].FileEvent = ""}

\* C16 as stated: over the whole session the offset of a data frame is not
\* below the offset of the frame sent before it, except right after a
\* truncate event, where it is the length of its own payload.
C16_OffsetsNeverDecrease ==
    \A i \in BeforeData :
        IF hist.sends[i].FileEvent = truncateEvent
        THEN hist.sends[i + 1].Offset = hist.sends[i + 1].n
        ELSE hist.sends[i + 1].Offset >= hist.sends[i].Offset

\* C16: within one streamFile call the offset of a data frame is not below
\* the offset of the frame sent before it, the frame with a truncate event
\* included; the offsets of another call start anew.
C16_OffsetsNeverDecreaseInCall ==
    \A i \in BeforeData :
        hist.sends[i + 1].call = hist.sends[i].call =>
            hist.sends[i + 1].Offset >= hist.sends[i].Offset

\* the log stream went on to another segment, whose first data frame has a
\* lower offset than the last data frame of the segment before
C16_LowerOffsetInNextSegment ==
    /\ mode = "logs"
    /\ \E i \in BeforeData :
          /\ hist.sends[i].FileEvent = ""
          /\ hist.sends[i + 1].call > hist.sends[i].call
          /\ hist.sends[i + 1].File > hist.sends[i].File
          /\ hist.sends[i + 1].Offset < hist.sends[i].Offset

\* C17: with a positive limit the payload bytes passed to framer.Send over
\* the whole streamFile call never exceed the limit, truncations and
\* reopenings included.
C17_SentWithinLimit ==
    (mode = "stream" /\ req.limit > 0) => SentBytes(hist.sends) <= req.limit

\* the limit was used up, the file was truncated to a length that leaves
\* bytes to read, and the reader opened after the truncation read none of them
C17_ReopenedWithNothingLeft ==
    /\ mode = "stream" /\ req.limit > 0
    /\ SentBytes(hist.sends) = req.limit
    /\ \E i \in TruncSends : i > 1 /\ hist.sends[i].n = 0 /\ hist.sends[i].before > 0
    /\ Len(fsys[0].data) > 0 /\ t.N = 0 /\ t.pc = "wait"

\* C18: with a positive limit streamFile returns once limit bytes have been
\* sent, whether the request follows or not.
C18_LimitEndsStream ==
    (mode = "stream" /\ req.limit > 0 /\ SentBytes(hist.sends) = req.limit)
        ~> (t.pc \in {"ret", "idle"})

\* a following file stream that started at the end of its file, size S; the
\* file has only been appended to since
FollowsFromEnd ==
    /\ mode = "stream" /\ req.follow /\ ~hist.shrunk /\ ~hist.faulted
    /\ req.offset = Len(fsys[0].data) - wr

\* C19: in a file stream that follows from the end of an idle file of size S,
\* a heartbeat that is the first frame delivered has offset S, and the first
\* frame with payload carries the bytes appended first, k of them, with
\* offset S + k.
C19_HeartbeatCarriesSize ==
    FollowsFromEnd =>
        /\ (wire # <<>> /\ wire[1].Data = <<>> /\ wire[1].FileEvent = "") =>
               wire[1].Offset = req.offset
        /\ FirstPayload # <<>> =>
               /\ FirstPayloadAt = req.offset
               /\ FirstPayload[1].Data =
                      SubSeq(fsys[0].data, req.offset + 1, FirstPayload[1].Offset)

\* the checks of the task have failed for a task the group does not have, or
\* one that has no state or no start time
TaskUnavailable ==
    /\ mode = "logs" /\ mpc \in {"defer", "done"} /\ lg.pc = "none"
    /\ req.task.tg /\ (~req.task.inGroup \/ ~req.task.state \/ ~req.task.started)

\* neither worker has been started and nothing has been sent or written
NothingStarted ==
    /\ ppc = "none" /\ wpc = "none" /\ lg.pc = "none" /\ bw.pc = "none"
    /\ fr.state = "none" /\ hist.sends = <<>> /\ frames = <<>> /\ wire = <<>>

SizeBefore(es, idx) == TotalSize({e \in es : e.idx < idx})

\* where the result of findClosest lies in the entries put one after the
\* other in ascending order of index
FindPosition == SizeBefore(fc.entries, fc.res.idx) + fc.res.offset

\* findClosest was asked to count forward from the first entry
FromFirst == FindDone /\ fc.desiredIdx <= FirstEntry(fc.entries).idx /\ fc.desiredOffset >= 0

\* findClosest was asked for an index above every entry
AboveAll == FindDone /\ \A e \in fc.entries : fc.desiredIdx > e.idx

\* C23 as stated: counted forward from the first entry, offset k >= 0 is
\* resolved to position min(k, T) of the T bytes of all entries; counted back
\* from above the last entry, offset -k <= 0 is resolved to max(0, T - k).
C23_ResolvesToPosition ==
    /\ FromFirst => FindPosition = Min(fc.desiredOffset, TotalSize(fc.entries))
    /\ (AboveAll /\ fc.desiredOffset <= 0) =>
          FindPosition = Max(0, TotalSize(fc.entries) + fc.desiredOffset)

\* C23: counted forward from the first entry, offset k >= 0 is resolved to
\* position min(k, T); counted back from above the last entry, offset -k < 0
\* is resolved to max(0, T - k), and offset 0 to the start of the last entry.
C23_ResolvesToPositionButZeroBack ==
    /\ FromFirst => FindPosition = Min(fc.desiredOffset, TotalSize(fc.entries))
    /\ (AboveAll /\ fc.desiredOffset < 0) =>
          FindPosition = Max(0, TotalSize(fc.entries) + fc.desiredOffset)
    /\ (AboveAll /\ fc.desiredOffset = 0) =>
          /\ fc.res.idx = fc.indexes[Len(fc.indexes)].idx
          /\ fc.res.offset = 0

\* a walk back from above the last entry crossed an entry that is not empty
\* and stopped inside an earlier one
C23_WalkedBackInside ==
    /\ AboveAll /\ fc.desiredOffset < 0
    /\ fc.indexes[Len(fc.indexes)].size > 0
    /\ fc.i < Len(fc.indexes)
    /\ fc.res.offset > 0
    /\ FindPosition = TotalSize(fc.entries) + fc.desiredOffset

\* the files the running streamFile call has open
OpenHandles == {i \in DOMAIN t.handles : t.handles[i]}

\* C22: when streamFile has returned, every file it opened is closed; and it
\* never has two files open: after a truncation the file is reopened only
\* once the one before is closed.
C22_HandlesReleased ==
    /\ t.pc \in {"ret", "idle"} => OpenHandles = {}
    /\ Cardinality(OpenHandles) <= 1

\* streamFile has returned nil after it reopened the file on a truncation
C22_ReturnedAfterReopen ==
    /\ t.pc = "ret" /\ t.res = Nil
    /\ Len(t.handles) = 2 /\ t.defers = <<1, 2>>
    /\ OpenHandles = {}

\* the driver goes on to the segment after idx: streamFile has returned nil
\* on eofCancel for a request that follows, nothing is cancelled and the
\* framer runs
LeavesForNext(e) ==
    /\ mode = "logs" /\ req.follow
    /\ e.res = Nil
    /\ hist.rotLen[e.File] >= 0
    /\ ~hist.shrunk

\* C24: when streamFile leaves a segment on eofCancel because a segment
\* above it was created, it has read, and passed to the framer, every byte
\* written to the segment before that creation.
C24_NoTrailingBytesSkipped ==
    \A i \in DOMAIN hist.eofLeft :
        LeavesForNext(hist.eofLeft[i]) =>
            hist.eofLeft[i].Offset >= hist.rotLen[hist.eofLeft[i].File]

\* what the blockUntilNextLog worker has done so far is in order: at most one
\* value was sent, the channel is closed only after the send and the worker
\* returns with the channel closed; the value is nil on cancellation and on
\* a segment at or above nextIndex, the error of the failed call otherwise
NextLogInOrder ==
    /\ nl.sends <= 1
    /\ nl.sends = Len(nl.next) + Len(nl.received)
    /\ nl.closed => nl.sends = 1
    /\ nl.pc = "done" <=> nl.closed
    /\ nl.pc = "close" => nl.sends = 1
    /\ nl.pc \in {"send", "close", "done"} =>
          /\ nl.why = "ctx" => nl.val = Nil /\ ctxDone
          /\ nl.why = "scan" => nl.val = Nil /\ nl.seen >= nl.nextIndex
          /\ nl.why \in {"block", "list"} => nl.val # Nil
          /\ nl.val = Nil => nl.why \in {"ctx", "scan", "exists"}
    /\ \A i \in DOMAIN nl.received : nl.received[i] = nl.val

\* C21: the blockUntilNextLog worker sends exactly one value and then closes
\* the channel; the send never waits, whether or not anyone receives, and the
\* worker returns; the value is nil on cancellation and when a segment at or
\* above nextIndex is listed, the error otherwise.
C21_SendsOnceClosesAndReturns ==
    /\ []NextLogInOrder
    /\ (nl.pc = "send") ~> (nl.pc = "done")

\* the worker has sent nil for a listed segment, closed the channel and
\* returned while no one received: the value is still in the channel
C21_ReturnedWithValueUnreceived ==
    /\ nl.pc = "done" /\ nl.closed /\ nl.why = "scan"
    /\ ~nl.listener /\ nl.received = <<>> /\ nl.next = <<Nil>>

====
